---- MODULE Spec2Model ----
(***************************************************************************)
(* Model of main_app.py, the CODESYS alarm CSV editor.                     *)
(*                                                                         *)
(* A Python str is a sequence of symbols.  A symbol is one character,      *)
(* except that each fixed word of the program (a column name, the version  *)
(* stamp, a combo box value) is a single symbol: these words hold no       *)
(* delimiter, quote or line end and neither begin nor end with white       *)
(* space, so split, strip and replace treat them as they treat any run of  *)
(* ordinary characters.  A file holds the text it decodes to under         *)
(* utf-16-le (the two bytes FF FE decode to the character U+FEFF, written  *)
(* "BOM"), kept as its lines: for each line the pieces between its ";"     *)
(* and the line end that closes it.  Joining the pieces with ";" and       *)
(* adding the line ends gives the text back, so two files are equal        *)
(* exactly when their bytes are.  Text-mode writes are modelled with       *)
(* os.linesep = "\n" (the "\r\n" the program writes is stored as written); *)
(* text-mode reads apply universal newlines.  open() for writing fails on  *)
(* every path of UnwritablePaths and, in create_new_file, may fail on any  *)
(* path; a failure of the other writes to a writable path is left out: it  *)
(* only shows a message box.                                               *)
(*                                                                         *)
(* Spec is the program run by one user.  ListedSpec starts it on a file    *)
(* that already holds records, ValueSpec calls append_row_utf16le on any   *)
(* value, QuotedSpec types quoted text into the form, TwoSpec runs a       *)
(* second instance on the same file, and FailSpec lets the read at the     *)
(* start of a handler fail.                                                *)
(***************************************************************************)
EXTENDS Integers, Sequences, FiniteSets, TLC

\* ------------------------------------------------------------------------
\* Characters
\* ------------------------------------------------------------------------
LF == "\n"
CR == "\r"
DQ == "\""
SQ == "'"
SP == " "
SEMI == ";"
BOM == "BOM"

\* Characters for which str.isspace() is true (those the model uses).
WHITESPACE == {SP, LF, CR}

\* The symbols of the model in str comparison order (code point of the
\* first character).
CodePoints ==
    <<"\n", "\r", " ", "\"", "#Version: 1.0.0.0", "'", "0", "1", "2", ";", "=",
      "Class", "Deactivation", "Details1", "Details2", "Details3", "Details4",
      "Details5", "Details6", "Digital", "Error", "HigherPrioAlarm", "ID",
      "Latch1", "Latch2", "Message", "MinPendingTime", "ObservationType",
      "TRUE", "a", "b", "c", "BOM">>

Code(c) == CHOOSE i \in 1..Len(CodePoints) : CodePoints[i] = c

DIGITS == {"0", "1", "2"}

DigitVal(c) == Code(c) - Code("0")

\* ------------------------------------------------------------------------
\* Program constants
\* ------------------------------------------------------------------------
COLUMNS ==
    << <<"ID">>, <<"ObservationType">>, <<"Details1">>, <<"Details2">>,
       <<"Details3">>, <<"Details4">>, <<"Details5">>, <<"Details6">>,
       <<"Deactivation">>, <<"Class">>, <<"Message">>, <<"MinPendingTime">>,
       <<"Latch1">>, <<"Latch2">>, <<"HigherPrioAlarm">> >>

BOM_UTF16_LE == <<BOM>>

VERSION_STAMP == <<"#Version: 1.0.0.0">>

CRLF == <<CR, LF>>

\* ------------------------------------------------------------------------
\* str helpers
\* ------------------------------------------------------------------------
\* The list f with every element computed (a Python list, not a generator)
list(f) == SubSeq(f, 1, Len(f))

\* The indices 1..Len(s), in order
Indices(s) == list([i \in 1..Len(s) |-> i])

\* sep.join(parts)
RECURSIVE join(_, _)
join(sep, parts) ==
    IF Len(parts) = 0 THEN <<>>
    ELSE IF Len(parts) = 1 THEN parts[1]
    ELSE parts[1] \o sep \o join(sep, Tail(parts))

\* sep * n
RECURSIVE repeat(_, _)
repeat(sep, n) == IF n <= 0 THEN <<>> ELSE sep \o repeat(sep, n - 1)

\* s.replace(old, new) for a single character old
replace(s, old, new) ==
    list([i \in 1..Len(s) |-> IF s[i] = old THEN new ELSE s[i]])

\* s.strip(chars)
strip(s, chars) ==
    IF s = <<>> THEN <<>>
    ELSE IF s[1] \notin chars /\ s[Len(s)] \notin chars THEN s
    ELSE
    LET keep == SelectSeq(Indices(s), LAMBDA i : s[i] \notin chars)
    IN  IF keep = <<>> THEN <<>> ELSE SubSeq(s, keep[1], keep[Len(keep)])

\* The pieces of s between its characters that belong to seps
pieces(s, seps) ==
    LET at == SelectSeq(Indices(s), LAMBDA i : s[i] \in seps)
        n == Len(at)
    IN  list([k \in 1..(n + 1) |->
                 SubSeq(s, IF k = 1 THEN 1 ELSE at[k - 1] + 1,
                           IF k = n + 1 THEN Len(s) ELSE at[k] - 1)])

\* s.split(sep) for a single character sep
split(s, sep) == pieces(s, {sep})

\* The lines of the text t as a text-mode read sees them (universal
\* newlines: "\r\n", "\r" and "\n" each end a line): for each line its
\* split(";") and the line end that closes it.  Text after the last line
\* end is a line with an empty end.
text_lines(t) ==
    LET ends == SelectSeq(Indices(t), LAMBDA i :
                    \/ t[i] = LF
                    \/ t[i] = CR /\ ~(i < Len(t) /\ t[i + 1] = LF))
        n == Len(ends)
        first(k) == IF t[ends[k]] = LF /\ ends[k] > 1 /\ t[ends[k] - 1] = CR
                    THEN ends[k] - 1 ELSE ends[k]
        lo(k) == IF k = 1 THEN 1 ELSE ends[k - 1] + 1
        closed == list([k \in 1..n |->
                     [cells |-> split(SubSeq(t, lo(k), first(k) - 1), SEMI),
                      end |-> SubSeq(t, first(k), ends[k])]])
    IN  IF lo(n + 1) > Len(t) THEN closed
        ELSE Append(closed, [cells |-> split(SubSeq(t, lo(n + 1), Len(t)), SEMI),
                             end |-> <<>>])

\* row padded on the right with "" to len(COLUMNS)
RECURSIVE pad(_)
pad(row) == IF Len(row) < Len(COLUMNS) THEN pad(Append(row, <<>>)) ELSE row

RECURSIVE Concat(_)
Concat(ss) == IF Len(ss) = 0 THEN <<>> ELSE ss[1] \o Concat(Tail(ss))

\* ------------------------------------------------------------------------
\* Bounds and input sets
\* ------------------------------------------------------------------------
\* An add or a save starts only while the file holds fewer than MaxRecords
\* lines besides its version and header lines.
MaxRecords == 2

\* Writable paths the file dialogs can return.
Paths == {"x.csv"}

\* Paths the file dialogs can return on which open() for writing raises
\* (a read-only or missing directory); no file exists there.
UnwritablePaths == {"ro.csv"}

AllPaths == Paths \cup UnwritablePaths

\* The dialogs return "" when the user cancels.
Cancel == ""

\* Texts typed into entry_id.
IdInputs == { <<>>, <<"1">>, <<"2">>, <<"1", ";">> }

\* Texts typed into text_message.
MessageInputs == { <<>>, <<DQ, "a", LF, "b">> }

\* Optional values: None, or a one-element sequence holding the value.
None == <<>>

Some(v) == <<v>>

\* A path on which no file exists.
NoFile == [exists |-> FALSE, data |-> <<>>]

\* ------------------------------------------------------------------------
\* File functions
\* ------------------------------------------------------------------------
header_line == join(<<SEMI>>, COLUMNS) \o CRLF

version_line == VERSION_STAMP \o repeat(<<SEMI>>, Len(COLUMNS) - 1) \o CRLF

ensure_file_and_header(f) ==
    IF f.exists THEN f ELSE [exists |-> TRUE, data |-> text_lines(header_line)]

\* The sanitisation loop with every replace left out
sanitize_Nothing(v) == v

\* The per-value sanitisation loop of append_row_utf16le.
sanitize(v) == replace(replace(replace(v, LF, SP), CR, SP), DQ, SQ)

append_row_utf16le(f, row_values) ==
    LET safe_values == list([i \in 1..Len(row_values) |->
                                 sanitize(row_values[i])])
        line == join(<<SEMI>>, safe_values) \o CRLF
        g == ensure_file_and_header(f)
    IN  [g EXCEPT !.data = @ \o text_lines(line)]

\* The bytes create_new_file writes with open(path, "wb").
fresh_file ==
    [exists |-> TRUE,
     data |-> text_lines(BOM_UTF16_LE \o version_line \o header_line)]

\* The characters the three strip calls of read_all_rows can remove
STRIPPED == WHITESPACE \cup {DQ, SQ}

\* c.strip().strip('"').strip("'")
sanitize_cell(c) ==
    IF c = <<>> THEN c
    ELSE IF c[1] \notin STRIPPED /\ c[Len(c)] \notin STRIPPED THEN c
    ELSE strip(strip(strip(c, WHITESPACE), {DQ}), {SQ})

\* line.strip() is empty: the line has no ";" and only white space
blank(cells) ==
    Len(cells) = 1 /\ \A i \in 1..Len(cells[1]) : cells[1][i] \in WHITESPACE

\* One line of read_all_rows: the split line, each cell sanitised, padded.
parse_line(cols) ==
    pad(list([i \in 1..Len(cols) |-> sanitize_cell(cols[i])]))

read_all_rows(f) ==
    IF ~f.exists THEN <<>>
    ELSE LET kept == SelectSeq(f.data, LAMBDA l : ~blank(l.cells))
         IN  list([i \in 1..Len(kept) |-> parse_line(kept[i].cells)])

\* The rows that are neither the version line nor the header line
record_lines(rows) ==
    SelectSeq(rows, LAMBDA r : r # COLUMNS /\ r[1] # BOM_UTF16_LE \o VERSION_STAMP)

\* The rewrite loop of delete_selected and save_changes: open(path, "w"),
\* then one padded, ";"-joined, CRLF-terminated line per row.
write_rows(rows) ==
    [exists |-> TRUE,
     data |-> text_lines(Concat(list([i \in 1..Len(rows) |->
                              join(<<SEMI>>, pad(rows[i])) \o CRLF])))]

\* ------------------------------------------------------------------------
\* Preview ordering
\* ------------------------------------------------------------------------
\* int(x) succeeds: optional surrounding whitespace, then digits only
\* (sign and underscore are not characters of the model).
IsInt(x) ==
    LET t == strip(x, WHITESPACE)
    IN  t # <<>> /\ \A i \in 1..Len(t) : t[i] \in DIGITS

RECURSIVE IntOfDigits(_)
IntOfDigits(t) ==
    IF Len(t) = 0 THEN 0
    ELSE 10 * IntOfDigits(SubSeq(t, 1, Len(t) - 1)) + DigitVal(t[Len(t)])

\* try_int_key with the int() attempt left out: every key is text
try_int_key_AsText(x) == <<1, x>>

try_int_key(x) ==
    IF IsInt(x) THEN <<0, IntOfDigits(strip(x, WHITESPACE))>>
    ELSE <<1, x>>

\* a < b for Python str
RECURSIVE StrLess(_, _)
StrLess(a, b) ==
    IF Len(b) = 0 THEN FALSE
    ELSE IF Len(a) = 0 THEN TRUE
    ELSE IF a[1] = b[1] THEN StrLess(Tail(a), Tail(b))
    ELSE Code(a[1]) < Code(b[1])

\* k1 < k2 for the tuples try_int_key returns
KeyLess(k1, k2) ==
    IF k1[1] # k2[1] THEN k1[1] < k2[1]
    ELSE IF k1[1] = 0 THEN k1[2] < k2[2]
    ELSE StrLess(k1[2], k2[2])

\* sorted(rows, key=lambda r: try_int_key(r[0])): stable
RECURSIVE sorted(_)
sorted(rows) ==
    IF Len(rows) = 0 THEN <<>>
    ELSE LET n == Len(rows)
             init == sorted(SubSeq(rows, 1, n - 1))
             r == rows[n]
             after == SelectSeq(Indices(init), LAMBDA i :
                          KeyLess(try_int_key(r[1]), try_int_key(init[i][1])))
             pos == IF after = <<>> THEN Len(init) + 1 ELSE after[1]
         IN  SubSeq(init, 1, pos - 1) \o <<r>> \o SubSeq(init, pos, Len(init))

\* The header skip of refresh_preview_and_autosize and id_exists.
preview_data_rows(rows) ==
    IF Len(rows) > 2 THEN SubSeq(rows, 3, Len(rows)) ELSE <<>>

\* The header skip of delete_selected, edit_selected and save_changes.
edit_data_rows(rows) ==
    IF Len(rows) > 2 THEN SubSeq(rows, 3, Len(rows)) ELSE rows

edit_header_rows(rows) ==
    IF Len(rows) > 2 THEN SubSeq(rows, 1, 2) ELSE <<>>

\* The ID column of the tree after refresh_preview_and_autosize, where
\* rows is what read_all_rows(csv_file_path) returns.
refresh_preview(path, rows) ==
    IF path = "None" THEN <<>>
    ELSE LET data_rows_sorted == sorted(preview_data_rows(rows))
         IN  list([i \in 1..Len(data_rows_sorted) |-> data_rows_sorted[i][1]])

\* id_exists(target_id, exclude_id), where rows is what
\* read_all_rows(csv_file_path) returns.
id_exists(path, rows, target_id, exclude_id) ==
    IF path = "None" THEN FALSE
    ELSE LET data_rows == preview_data_rows(rows)
         IN  \E i \in 1..Len(data_rows) :
                 /\ data_rows[i][1] = target_id
                 /\ ~(exclude_id # None /\ Some(data_rows[i][1]) = exclude_id)

\* Index of the first row whose field 0 is id, or 0
first_match(data_rows, id) ==
    LET hits == SelectSeq(Indices(data_rows), LAMBDA i : data_rows[i][1] = id)
    IN  IF hits = <<>> THEN 0 ELSE hits[1]

\* ------------------------------------------------------------------------
\* State
\* ------------------------------------------------------------------------
VARIABLES
    csv_file_path,  \* the selected path, or "None"
    editing,        \* edit mode; btn_add is DISABLED and btn_save NORMAL
                    \* exactly while it is TRUE
    original_id,    \* None, or Some(id) of the record being edited
    files,          \* the file system: path -> [exists, data]
    tree,           \* the ID column of the preview rows, top to bottom
    last,           \* the handler that ran last and the message box it showed
    other           \* a second running instance of the program: where it is
                    \* in a rewrite of the file and the message box it showed

vars == <<csv_file_path, editing, original_id, files, tree, last, other>>

\* Values of the readonly combo boxes and of entry_details1 used here.
ObservationTypes == { <<"Digital">> }

Details3Values == { <<"TRUE">> }

ClassValues == { <<"Error">> }

Details1Inputs == { <<>> }

\* What the form widgets hold when a button is clicked.
Forms ==
    [id : IdInputs, details1 : Details1Inputs,
     observation_type : ObservationTypes, details3 : Details3Values,
     class_value : ClassValues, message : MessageInputs]

\* The row add_entry and save_changes build from the form.
form_row(form) ==
    << strip(form.id, WHITESPACE), form.observation_type,
       strip(form.details1, WHITESPACE), <<"=">>, form.details3,
       <<>>, <<>>, <<>>, <<>>, form.class_value,
       strip(form.message, WHITESPACE), <<>>, <<>>, <<>>, <<>> >>

Shown(op, msg) == [op |-> op, msg |-> msg]

\* The second instance between two handlers, msg being the message box its
\* last rewrite showed; it holds no rows.
Idle(msg) ==
    [pc |-> "idle", path |-> "None", rows |-> <<>>, new_lines |-> <<>>,
     msg |-> msg]

Init ==
    /\ csv_file_path = "None"
    /\ editing = FALSE
    /\ original_id = None
    /\ files = [p \in AllPaths |-> NoFile]
    /\ tree = <<>>
    /\ last = Shown("start", "")
    /\ other = Idle("")

\* ------------------------------------------------------------------------
\* Handlers.  The program is single-threaded, so every read_all_rows call a
\* handler makes before it writes returns the same rows; each handler takes
\* them as its parameter rows.
\* ------------------------------------------------------------------------
\* What read_all_rows(csv_file_path) returns in the current state
current_rows ==
    IF csv_file_path = "None" THEN <<>> ELSE read_all_rows(files[csv_file_path])

\* On an unwritable path the open() of ensure_file_and_header raises and
\* the handler ends there, with csv_file_path already set.
browse_file(file_path) ==
    /\ file_path # Cancel
    /\ csv_file_path' = file_path
    /\ IF file_path \in UnwritablePaths
       THEN /\ last' = Shown("browse_file", "")
            /\ UNCHANGED <<files, tree>>
       ELSE /\ files' = [files EXCEPT ![file_path] = ensure_file_and_header(@)]
            /\ tree' = refresh_preview(file_path, read_all_rows(files'[file_path]))
            /\ last' = Shown("browse_file", "File Loaded")
    /\ UNCHANGED <<editing, original_id, other>>

create_new_file(file_path, io_ok) ==
    /\ file_path # Cancel
    /\ csv_file_path' = file_path
    /\ IF io_ok /\ file_path \notin UnwritablePaths
       THEN /\ files' = [files EXCEPT ![file_path] = fresh_file]
            /\ tree' = refresh_preview(file_path, read_all_rows(files'[file_path]))
            /\ last' = Shown("create_new_file", "New CSV file created successfully!")
       ELSE /\ last' = Shown("create_new_file", "Failed to create file")
            /\ UNCHANGED <<files, tree>>
    /\ UNCHANGED <<editing, original_id, other>>

\* add_entry with the append moved in front of the duplicate check
add_entry_AppendsBeforeCheck(rows, form) ==
    LET row == form_row(form)
        id_value == row[1]
    IN  /\ ~editing
        /\ UNCHANGED <<csv_file_path, editing, original_id, other>>
        /\ IF csv_file_path = "None"
           THEN /\ last' = Shown("add_entry", "Please select a CSV file first.")
                /\ UNCHANGED <<files, tree>>
           ELSE IF id_value = <<>>
           THEN /\ last' = Shown("add_entry", "ID is required.")
                /\ UNCHANGED <<files, tree>>
           ELSE IF csv_file_path \in UnwritablePaths
           THEN /\ last' = Shown("add_entry", "Write Error")
                /\ UNCHANGED <<files, tree>>
           ELSE /\ Len(record_lines(rows)) < MaxRecords
                /\ files' = [files EXCEPT ![csv_file_path] =
                                append_row_utf16le(@, row)]
                /\ tree' = refresh_preview(csv_file_path,
                                           read_all_rows(files'[csv_file_path]))
                /\ last' = IF id_exists(csv_file_path, rows, id_value, None)
                           THEN Shown("add_entry", "Duplicate ID")
                           ELSE Shown("add_entry", "Entry added successfully!")

add_entry(rows, form) ==
    LET row == form_row(form)
        id_value == row[1]
    IN  /\ ~editing
        /\ UNCHANGED <<csv_file_path, editing, original_id, other>>
        /\ IF csv_file_path = "None"
           THEN /\ last' = Shown("add_entry", "Please select a CSV file first.")
                /\ UNCHANGED <<files, tree>>
           ELSE IF id_value = <<>>
           THEN /\ last' = Shown("add_entry", "ID is required.")
                /\ UNCHANGED <<files, tree>>
           ELSE IF id_exists(csv_file_path, rows, id_value, None)
           THEN /\ last' = Shown("add_entry", "Duplicate ID")
                /\ UNCHANGED <<files, tree>>
           ELSE IF csv_file_path \in UnwritablePaths
           THEN /\ last' = Shown("add_entry", "Write Error")
                /\ UNCHANGED <<files, tree>>
           ELSE /\ Len(record_lines(rows)) < MaxRecords
                /\ files' = [files EXCEPT ![csv_file_path] =
                                append_row_utf16le(@, row)]
                /\ tree' = refresh_preview(csv_file_path,
                                           read_all_rows(files'[csv_file_path]))
                /\ last' = Shown("add_entry", "Entry added successfully!")

edit_selected(rows, item) ==
    LET target_id == tree[item]
        data_rows == edit_data_rows(rows)
        k == first_match(data_rows, target_id)
    IN  /\ item \in 1..Len(tree)
        /\ UNCHANGED <<csv_file_path, files, tree, other>>
        /\ IF k = 0
           THEN /\ last' = Shown("edit_selected", "Not found")
                /\ UNCHANGED <<editing, original_id>>
           ELSE /\ editing' = TRUE
                /\ original_id' = Some(data_rows[k][1])
                /\ last' = Shown("edit_selected", "")

\* new_all of save_changes: the header rows, then the data rows with the
\* k-th replaced by new_r
replaced_rows(rows, k, new_r) ==
    LET data_rows == edit_data_rows(rows)
    IN  edit_header_rows(rows) \o
        list([i \in 1..Len(data_rows) |-> IF i = k THEN new_r ELSE data_rows[i]])

save_changes(rows, form) ==
    LET new_r == form_row(form)
        new_id == new_r[1]
        data_rows == edit_data_rows(rows)
        k == IF original_id = None THEN 0
             ELSE first_match(data_rows, original_id[1])
        new_all == replaced_rows(rows, k, new_r)
    IN  /\ editing
        /\ UNCHANGED <<csv_file_path, other>>
        /\ IF new_id = <<>>
           THEN /\ last' = Shown("save_changes", "ID is required.")
                /\ UNCHANGED <<editing, original_id, files, tree>>
           ELSE IF id_exists(csv_file_path, rows, new_id, original_id)
           THEN /\ last' = Shown("save_changes", "Duplicate ID")
                /\ UNCHANGED <<editing, original_id, files, tree>>
           ELSE IF k = 0
           THEN /\ last' = Shown("save_changes", "Not found")
                /\ UNCHANGED <<editing, original_id, files, tree>>
           ELSE /\ Len(record_lines(rows)) < MaxRecords + 1
                /\ files' = [files EXCEPT ![csv_file_path] = write_rows(new_all)]
                /\ editing' = FALSE
                /\ original_id' = None
                /\ tree' = refresh_preview(csv_file_path,
                                           read_all_rows(files'[csv_file_path]))
                /\ last' = Shown("save_changes", "Saved")

\* delete_selected without the return on "not removed"
delete_selected_WritesUnfound(rows, item, confirm) ==
    LET target_id == tree[item]
        data_rows == edit_data_rows(rows)
        k == first_match(data_rows, target_id)
        new_lines == edit_header_rows(rows) \o
                     SubSeq(data_rows, 1, k - 1) \o
                     SubSeq(data_rows, k + 1, Len(data_rows))
    IN  /\ item \in 1..Len(tree)
        /\ confirm
        /\ UNCHANGED <<csv_file_path, other>>
        /\ IF FALSE
           THEN /\ last' = Shown("delete_selected", "Not found")
                /\ UNCHANGED <<editing, original_id, files, tree>>
           ELSE /\ files' = [files EXCEPT ![csv_file_path] = write_rows(new_lines)]
                /\ IF editing /\ original_id = Some(target_id)
                   THEN editing' = FALSE /\ original_id' = None
                   ELSE UNCHANGED <<editing, original_id>>
                /\ tree' = refresh_preview(csv_file_path,
                                           read_all_rows(files'[csv_file_path]))
                /\ last' = Shown("delete_selected", "Deleted")

delete_selected(rows, item, confirm) ==
    LET target_id == tree[item]
        data_rows == edit_data_rows(rows)
        k == first_match(data_rows, target_id)
        new_lines == edit_header_rows(rows) \o
                     SubSeq(data_rows, 1, k - 1) \o
                     SubSeq(data_rows, k + 1, Len(data_rows))
    IN  /\ item \in 1..Len(tree)
        /\ confirm
        /\ UNCHANGED <<csv_file_path, other>>
        /\ IF k = 0
           THEN /\ last' = Shown("delete_selected", "Not found")
                /\ UNCHANGED <<editing, original_id, files, tree>>
           ELSE /\ files' = [files EXCEPT ![csv_file_path] = write_rows(new_lines)]
                /\ IF editing /\ original_id = Some(target_id)
                   THEN editing' = FALSE /\ original_id' = None
                   ELSE UNCHANGED <<editing, original_id>>
                /\ tree' = refresh_preview(csv_file_path,
                                           read_all_rows(files'[csv_file_path]))
                /\ last' = Shown("delete_selected", "Deleted")

Next ==
    LET rows == current_rows
    IN  \/ \E file_path \in AllPaths \cup {Cancel} : browse_file(file_path)
        \/ \E file_path \in AllPaths \cup {Cancel}, io_ok \in BOOLEAN :
               create_new_file(file_path, io_ok)
        \/ \E form \in Forms : add_entry(rows, form)
        \/ \E item \in 1..Len(tree) : edit_selected(rows, item)
        \/ \E form \in Forms : save_changes(rows, form)
        \/ \E item \in 1..Len(tree), confirm \in BOOLEAN :
               delete_selected(rows, item, confirm)

Spec == Init /\ [][Next]_vars

\* ------------------------------------------------------------------------
\* Properties
\* ------------------------------------------------------------------------
\* What read_all_rows(csv_file_path) returns in the next state
next_rows == read_all_rows(files'[csv_file_path])

Added == Shown("add_entry", "Entry added successfully!")

Saved == Shown("save_changes", "Saved")

Deleted == Shown("delete_selected", "Deleted")

Created == Shown("create_new_file", "New CSV file created successfully!")

\* C1: no two record lines of a file (lines other than the version and
\* header lines) have the same field 0 as read back by read_all_rows.
C1_UniqueIds ==
    \A p \in Paths :
        LET rec == record_lines(read_all_rows(files[p]))
        IN  \A i, j \in 1..Len(rec) : i # j => rec[i][1] # rec[j][1]

\* C2: after an add that passed the id_exists pre-check, id_exists of the
\* added id is true and the preview lists exactly one more data record.
C2_AppendVisible ==
    [][\A form \in Forms :
          add_entry(current_rows, form) /\ last' = Added
          => /\ id_exists(csv_file_path, next_rows, form_row(form)[1], None)
             /\ Len(preview_data_rows(next_rows))
                    = Len(preview_data_rows(current_rows)) + 1]_vars

\* C3: after a save that found the original id and passed the uniqueness
\* pre-check, the listed data records contain the new record exactly once,
\* none with the old id unless the id is kept, and as many records as before.
C3_UpdateExact ==
    [][\A form \in Forms :
          save_changes(current_rows, form) /\ last' = Saved
          => LET new_r == form_row(form)
                 before == preview_data_rows(current_rows)
                 after == preview_data_rows(next_rows)
             IN  /\ Cardinality({i \in 1..Len(after) : after[i] = new_r}) = 1
                 /\ new_r[1] # original_id[1]
                        => \A i \in 1..Len(after) : after[i][1] # original_id[1]
                 /\ Len(after) = Len(before)]_vars

\* C4: after a delete of an id some data record has, one data record fewer
\* is listed and no listed record has that id.
C4_RemoveExact ==
    [][\A item \in 1..Len(tree) :
          delete_selected(current_rows, item, TRUE) /\ last' = Deleted
          => LET before == preview_data_rows(current_rows)
                 after == preview_data_rows(next_rows)
             IN  /\ Len(after) = Len(before) - 1
                 /\ \A i \in 1..Len(after) : after[i][1] # tree[item]]_vars

\* The rejections of add_entry, save_changes and delete_selected
Rejections ==
    { Shown("add_entry", "ID is required."),
      Shown("add_entry", "Duplicate ID"),
      Shown("save_changes", "ID is required."),
      Shown("save_changes", "Duplicate ID"),
      Shown("save_changes", "Not found"),
      Shown("delete_selected", "Not found") }

\* C5: a rejected add, save or delete leaves every file as it was.
C5_RejectedUnchanged == [][last' \in Rejections => files' = files]_vars

\* A duplicate add has just been rejected on a file that holds records.
C5_Witness ==
    /\ last = Shown("add_entry", "Duplicate ID")
    /\ files[csv_file_path].exists
    /\ Len(preview_data_rows(current_rows)) > 0

\* C6: an add to a path that does not exist leaves a file of two lines, the
\* header line and the record, and the listing is exactly that record.
C6_AppendCreates ==
    [][\A form \in Forms :
          /\ csv_file_path # "None"
          /\ ~files[csv_file_path].exists
          /\ add_entry(current_rows, form)
          /\ last' = Added
          => /\ Len(files'[csv_file_path].data) = 2
             /\ files'[csv_file_path].data[1].cells = COLUMNS
             /\ Len(next_rows) = 2
             /\ preview_data_rows(next_rows) = <<next_rows[2]>>]_vars

\* C7: no stored field holds a double quote or a raw line end: every line
\* ends with the CRLF the program writes after it.
C7_NoRawBreakOrQuote ==
    \A p \in Paths :
        \A i \in 1..Len(files[p].data) :
            LET line == files[p].data[i]
            IN  /\ line.end = CRLF
                /\ \A j \in 1..Len(line.cells) :
                       \A n \in 1..Len(line.cells[j]) :
                           line.cells[j][n] \notin {DQ, LF, CR}

\* C8: every line of a file has exactly len(COLUMNS) fields.
C8_FifteenFields ==
    \A p \in Paths :
        \A i \in 1..Len(files[p].data) :
            Len(files[p].data[i].cells) = Len(COLUMNS)

\* The version line as the claim reads it back
version_row == pad(<<VERSION_STAMP>>)

\* C9: right after create_new_file, read_all_rows returns two rows, the
\* version row (cell 0 the version stamp, the rest empty) and the header.
C9_FreshDecodes ==
    last = Created => read_all_rows(files[csv_file_path]) = <<version_row, COLUMNS>>

\* Every field of every row is a value sanitize leaves as it is
AllSanitized(rows) ==
    \A i \in 1..Len(rows) : \A j \in 1..Len(rows[i]) :
        sanitize(rows[i][j]) = rows[i][j]

\* C10: rows of sanitized fields written by the full rewrite are read back
\* as the same rows, padded to len(COLUMNS).
C10_RoundTrip ==
    [][\A form \in Forms :
          save_changes(current_rows, form) /\ last' = Saved
          => LET k == first_match(edit_data_rows(current_rows), original_id[1])
                 new_all == replaced_rows(current_rows, k, form_row(form))
             IN  AllSanitized(new_all)
                 => next_rows = list([i \in 1..Len(new_all) |-> pad(new_all[i])])]_vars

\* The ids add_entry and save_changes pass to id_exists
FormIds == { strip(id, WHITESPACE) : id \in IdInputs } \ { <<>> }

\* C11: for the selected file, id_exists(id, exclude_id) is true exactly
\* when some data record, under the split delete_selected and save_changes
\* use (all rows are data unless there are more than two), has field 0 equal
\* to id and not equal to exclude_id; the two splits give the same records.
C11_ExistsMatchesSplit ==
    csv_file_path # "None" =>
        LET rows == current_rows
            data_rows == edit_data_rows(rows)
        IN  /\ preview_data_rows(rows) = data_rows
            /\ \A id \in FormIds, exclude_id \in {None} \cup {Some(x) : x \in FormIds} :
                   id_exists(csv_file_path, rows, id, exclude_id)
                   <=> \E i \in 1..Len(data_rows) :
                           /\ data_rows[i][1] = id
                           /\ Some(data_rows[i][1]) # exclude_id

\* ------------------------------------------------------------------------
\* Opening a file that already holds records
\* ------------------------------------------------------------------------
\* The most records a file on disk holds when the program starts.
MaxListed == 4

\* Field 0 of the records of such a file.
ListedIds ==
    { <<"1">>, <<"2">>, <<"1", "0">>, <<"0", "1">>, <<"a", "b", "c">> }

\* The row add_entry builds for id with the other widgets at their defaults.
default_row(id) ==
    form_row([id |-> id, details1 |-> <<>>, observation_type |-> <<"Digital">>,
              details3 |-> <<"TRUE">>, class_value |-> <<"Error">>,
              message |-> <<>>])

\* The file create_new_file makes, after one append_row_utf16le per id.
RECURSIVE file_with(_)
file_with(ids) ==
    IF Len(ids) = 0 THEN fresh_file
    ELSE append_row_utf16le(file_with(SubSeq(ids, 1, Len(ids) - 1)),
                            default_row(ids[Len(ids)]))

IdLists == UNION { [1..n -> ListedIds] : n \in 0..MaxListed }

\* The program starts with no file selected; a file with records is on disk.
ListedInit ==
    /\ csv_file_path = "None"
    /\ editing = FALSE
    /\ original_id = None
    /\ \E ids \in IdLists :
           files = [p \in AllPaths |->
                        IF p \in Paths THEN file_with(list(ids)) ELSE NoFile]
    /\ tree = <<>>
    /\ last = Shown("start", "")
    /\ other = Idle("")

ListedNext == \E file_path \in AllPaths \cup {Cancel} : browse_file(file_path)

ListedSpec == ListedInit /\ [][ListedNext]_vars

Loaded == Shown("browse_file", "File Loaded")

\* Field 0 of the data rows refresh_preview_and_autosize sorts
listed_ids ==
    LET data_rows == preview_data_rows(current_rows)
    IN  list([i \in 1..Len(data_rows) |-> data_rows[i][1]])

int_value(id) == IntOfDigits(strip(id, WHITESPACE))

\* Two ids the sort may not reorder: the same integer, or the same text
same_key(a, b) ==
    IF IsInt(a) THEN IsInt(b) /\ int_value(a) = int_value(b) ELSE a = b

\* C12: the preview lists the ids of the data rows, each as often as it
\* occurs; ids that int() accepts come before the others and are in
\* non-decreasing numeric order, the others are in non-decreasing str
\* order, and ids with equal keys are in their file order.
C12_DisplayOrder ==
    last = Loaded =>
        /\ Len(tree) = Len(listed_ids)
        /\ \A id \in ListedIds :
               SelectSeq(tree, LAMBDA x : same_key(x, id))
                   = SelectSeq(listed_ids, LAMBDA x : same_key(x, id))
        /\ \A i, j \in 1..Len(tree) :
               i < j =>
                   /\ IsInt(tree[j]) => IsInt(tree[i])
                   /\ IsInt(tree[i]) /\ IsInt(tree[j])
                          => int_value(tree[i]) <= int_value(tree[j])
                   /\ ~IsInt(tree[i]) /\ ~IsInt(tree[j])
                          => ~StrLess(tree[j], tree[i])

\* The file lists "10", "2", "abc", "1" and the preview shows
\* "1", "2", "10", "abc".
C12_Witness ==
    /\ last = Loaded
    /\ listed_ids = << <<"1", "0">>, <<"2">>, <<"a", "b", "c">>, <<"1">> >>
    /\ tree = << <<"1">>, <<"2">>, <<"1", "0">>, <<"a", "b", "c">> >>

\* ------------------------------------------------------------------------
\* append_row_utf16le on any value
\* ------------------------------------------------------------------------
\* Values handed to append_row_utf16le.
ValueInputs ==
    { <<>>, <<LF>>, <<CR>>, <<DQ>>, <<SQ>>, <<SP>>, <<"a">>, <<CR, LF>>,
      <<DQ, DQ>>, <<"a", LF, "b">>, <<DQ, "a", DQ>>, <<LF, "a", DQ>> }

\* A call append_row_utf16le(csv_file_path, row_values) on a writable path,
\* while the file holds fewer than MaxRecords lines after its first two.
append_row(row_values) ==
    /\ csv_file_path \in Paths
    /\ Len(files[csv_file_path].data) < MaxRecords + 2
    /\ files' = [files EXCEPT ![csv_file_path] = append_row_utf16le(@, row_values)]
    /\ last' = Shown("append_row_utf16le", "")
    /\ UNCHANGED <<csv_file_path, editing, original_id, tree, other>>

ValueNext ==
    \/ \E file_path \in AllPaths \cup {Cancel} : browse_file(file_path)
    \/ \E file_path \in AllPaths \cup {Cancel}, io_ok \in BOOLEAN :
           create_new_file(file_path, io_ok)
    \/ \E v \in ValueInputs : append_row(<<v>>)

ValueSpec == Init /\ [][ValueNext]_vars

\* The text of the last line of file f, without its line end
last_line_text(f) == join(<<SEMI>>, f.data[Len(f.data)].cells)

\* C13: the value append_row_utf16le writes for any value holds no "\n",
\* no "\r" and no double quote, so it is one more line that ends with the
\* "\r\n" written after it, and sanitising the written value again gives
\* the same value.
C13_SanitizeClean ==
    [][\A v \in ValueInputs :
          append_row(<<v>>)
          => LET before == ensure_file_and_header(files[csv_file_path])
                 after == files'[csv_file_path]
                 written == last_line_text(after)
             IN  /\ Len(after.data) = Len(before.data) + 1
                 /\ after.data[Len(after.data)].end = CRLF
                 /\ \A n \in 1..Len(written) : written[n] \notin {LF, CR, DQ}
                 /\ sanitize(written) = written]_vars

\* A value with a line break and a double quote has been appended: the
\* last line of the file is " a'".
C13_Witness ==
    /\ last = Shown("append_row_utf16le", "")
    /\ last_line_text(files[csv_file_path]) = <<SP, "a", SQ>>

\* ------------------------------------------------------------------------
\* Rewrites of a file whose records hold quoted text
\* ------------------------------------------------------------------------
\* Texts typed into entry_id and text_message: no delimiter, no line break.
QuotedIdInputs == { <<>>, <<"1">>, <<"2">> }

QuotedMessageInputs == { <<>>, <<SQ, SP, "a">> }

QuotedForms ==
    [id : QuotedIdInputs, details1 : Details1Inputs,
     observation_type : ObservationTypes, details3 : Details3Values,
     class_value : ClassValues, message : QuotedMessageInputs]

QuotedNext ==
    LET rows == current_rows
    IN  \/ \E file_path \in AllPaths \cup {Cancel} : browse_file(file_path)
        \/ \E file_path \in AllPaths \cup {Cancel}, io_ok \in BOOLEAN :
               create_new_file(file_path, io_ok)
        \/ \E form \in QuotedForms : add_entry(rows, form)
        \/ \E item \in 1..Len(tree) : edit_selected(rows, item)
        \/ \E form \in QuotedForms : save_changes(rows, form)
        \/ \E item \in 1..Len(tree), confirm \in BOOLEAN :
               delete_selected(rows, item, confirm)

QuotedSpec == Init /\ [][QuotedNext]_vars

\* The position, among all rows, of the first data row whose field 0 is id
target_position(rows, id) ==
    Len(edit_header_rows(rows)) + first_match(edit_data_rows(rows), id)

\* C14: a save or a delete that succeeds changes one row position only.
\* After a save the file reads back as many rows as before and every row
\* but the one at the target's position reads back as it did; after a
\* delete the file reads back the rows it had, without the one at the
\* target's position.
C14_OneLineChanged ==
    [][/\ \A form \in QuotedForms :
              save_changes(current_rows, form) /\ last' = Saved
              => LET before == current_rows
                     after == next_rows
                     pos == target_position(before, original_id[1])
                 IN  /\ Len(after) = Len(before)
                     /\ \A i \in 1..Len(before) : i # pos => after[i] = before[i]
       /\ \A item \in 1..Len(tree) :
              delete_selected(current_rows, item, TRUE) /\ last' = Deleted
              => LET before == current_rows
                     pos == target_position(before, tree[item])
                 IN  next_rows = SubSeq(before, 1, pos - 1)
                                     \o SubSeq(before, pos + 1, Len(before))]_vars

\* ------------------------------------------------------------------------
\* Two instances of the program on one file
\* ------------------------------------------------------------------------
\* The handlers of the first instance are steps of the model as before.  A
\* rewriting handler of the second instance is two steps, its
\* read_all_rows and its open(path, "w") with the write loop, and a
\* handler of the first instance may run between the two: nothing in the
\* program locks the file.  When its handler starts the second instance
\* has the path selected that the first has, and its preview shows the
\* file as it is.
PlainForms ==
    [id : QuotedIdInputs, details1 : Details1Inputs,
     observation_type : ObservationTypes, details3 : Details3Values,
     class_value : ClassValues, message : {<<>>}]

\* The second instance after read_all_rows(path) returned rows and the
\* loop built new_lines, before it opens the file for writing; msg is the
\* message box it shows once the write is done.
Rewriting(path, rows, new_lines, msg) ==
    [pc |-> "write", path |-> path, rows |-> rows, new_lines |-> new_lines,
     msg |-> msg]

\* new_lines of delete_selected: the header rows, then the data rows
\* without the k-th
removed_rows(rows, k) ==
    LET data_rows == edit_data_rows(rows)
    IN  edit_header_rows(rows) \o SubSeq(data_rows, 1, k - 1)
            \o SubSeq(data_rows, k + 1, Len(data_rows))

\* delete_selected of the second instance up to its write, on the item
\* of its preview.
other_delete_read(rows, item) ==
    LET shown == refresh_preview(csv_file_path, rows)
        k == first_match(edit_data_rows(rows), shown[item])
    IN  /\ other.pc = "idle"
        /\ csv_file_path \in Paths
        /\ item \in 1..Len(shown)
        /\ other' = IF k = 0 THEN Idle("Not found")
                    ELSE Rewriting(csv_file_path, rows, removed_rows(rows, k),
                                   "Deleted")
        /\ UNCHANGED <<csv_file_path, editing, original_id, files, tree, last>>

\* save_changes of the second instance up to its write, in edit mode on
\* the item of its preview.
other_save_read(rows, item, form) ==
    LET shown == refresh_preview(csv_file_path, rows)
        new_r == form_row(form)
        k == first_match(edit_data_rows(rows), shown[item])
    IN  /\ other.pc = "idle"
        /\ csv_file_path \in Paths
        /\ item \in 1..Len(shown)
        /\ other' = IF new_r[1] = <<>> THEN Idle("ID is required.")
                    ELSE IF id_exists(csv_file_path, rows, new_r[1], Some(shown[item]))
                    THEN Idle("Duplicate ID")
                    ELSE IF k = 0 THEN Idle("Not found")
                    ELSE Rewriting(csv_file_path, rows,
                                   replaced_rows(rows, k, new_r), "Saved")
        /\ UNCHANGED <<csv_file_path, editing, original_id, files, tree, last>>

\* The write of the second instance, had it compared the file with the
\* rows it read and refused to write over a changed file
other_write_IfUnchanged ==
    /\ other.pc = "write"
    /\ IF read_all_rows(files[other.path]) = other.rows
       THEN /\ files' = [files EXCEPT ![other.path] = write_rows(other.new_lines)]
            /\ other' = Idle(other.msg)
       ELSE /\ other' = Idle("Write Error")
            /\ UNCHANGED files
    /\ UNCHANGED <<csv_file_path, editing, original_id, tree, last>>

\* The write of the second instance: open(path, "w") and the write loop,
\* then its message box.
other_write ==
    /\ other.pc = "write"
    /\ files' = [files EXCEPT ![other.path] = write_rows(other.new_lines)]
    /\ other' = Idle(other.msg)
    /\ UNCHANGED <<csv_file_path, editing, original_id, tree, last>>

TwoNext ==
    LET rows == current_rows
    IN  \/ \E file_path \in AllPaths \cup {Cancel} :
               browse_file(file_path)
        \/ \E file_path \in AllPaths \cup {Cancel}, io_ok \in BOOLEAN :
               create_new_file(file_path, io_ok)
        \/ \E form \in PlainForms : add_entry(rows, form)
        \/ \E item \in 1..Len(tree) : edit_selected(rows, item)
        \/ \E form \in PlainForms : save_changes(rows, form)
        \/ \E item \in 1..Len(tree), confirm \in BOOLEAN :
               delete_selected(rows, item, confirm)
        \/ \E item \in 1..MaxRecords + 1 : other_delete_read(rows, item)
        \/ \E item \in 1..MaxRecords + 1, form \in PlainForms :
               other_save_read(rows, item, form)
        \/ other_write

TwoSpec == Init /\ [][TwoNext]_vars

\* Field 0 of each of rows
ids_of(rows) == { rows[i][1] : i \in 1..Len(rows) }

\* C15: the write of a rewrite that was read before another instance
\* changed the file goes through all the same: it shows its success
\* message, the other instance's message stays as it was, and the file
\* holds the rows computed from what the writer read and nothing else.
C15_LastWriterWins ==
    [][other_write
       => /\ other'.msg \in {"Deleted", "Saved"}
          /\ last' = last
          /\ files'[other.path] = write_rows(other.new_lines)]_vars

\* The second instance has read the file for a rewrite; the first has since
\* added a record with success, which the rows about to be written lack.
C15_Witness ==
    /\ other.pc = "write"
    /\ other.path = csv_file_path
    /\ last = Added
    /\ \E i \in 1..Len(tree) :
           /\ tree[i] \in ids_of(current_rows)
           /\ tree[i] \notin ids_of(other.rows)
           /\ tree[i] \notin ids_of(other.new_lines)

\* ------------------------------------------------------------------------
\* Reads that fail
\* ------------------------------------------------------------------------
\* read_all_rows returns [] when open() or read() raises (the file is
\* locked by another program, or its bytes do not decode).  Here the read a
\* handler starts with may fail; the read of the refresh that follows a
\* write does not.  An add starts only while the file holds fewer than
\* MaxRecords records.
rows_read(read_ok) == IF read_ok THEN current_rows ELSE <<>>

FailNext ==
    \E read_ok \in BOOLEAN :
        LET rows == rows_read(read_ok)
        IN  \/ \E file_path \in AllPaths \cup {Cancel} : browse_file(file_path)
            \/ \E file_path \in AllPaths \cup {Cancel}, io_ok \in BOOLEAN :
                   create_new_file(file_path, io_ok)
            \/ \E form \in PlainForms :
                   /\ Len(record_lines(current_rows)) < MaxRecords
                   /\ add_entry(rows, form)
            \/ \E item \in 1..Len(tree) : edit_selected(rows, item)
            \/ \E form \in PlainForms : save_changes(rows, form)
            \/ \E item \in 1..Len(tree), confirm \in BOOLEAN :
                   delete_selected(rows, item, confirm)

FailSpec == Init /\ [][FailNext]_vars

\* The selected file exists and read_all_rows returns rows of it when the
\* read succeeds
Readable ==
    /\ csv_file_path \in Paths
    /\ files[csv_file_path].exists
    /\ current_rows # <<>>

\* C16: on a file that holds rows, a save_changes (with an id typed in)
\* and a delete_selected whose read returns [] show "Not found" and leave
\* every file as it was; an add_entry whose read returns [] still appends
\* its line to the file and keeps the lines the file had.
C16_FailedReadNoRewrite ==
    [][Readable =>
          /\ \A form \in PlainForms :
                 save_changes(<<>>, form) /\ form_row(form)[1] # <<>>
                 => /\ last' = Shown("save_changes", "Not found")
                    /\ files' = files
          /\ \A item \in 1..Len(tree) :
                 delete_selected(<<>>, item, TRUE)
                 => /\ last' = Shown("delete_selected", "Not found")
                    /\ files' = files
          /\ \A form \in PlainForms :
                 add_entry(<<>>, form) /\ form_row(form)[1] # <<>>
                 => /\ last' = Added
                    /\ files'[csv_file_path].data
                           = files[csv_file_path].data
                                 \o <<files'[csv_file_path].data[
                                          Len(files'[csv_file_path].data)]>>]_vars

\* A delete has just shown "Not found" although every id of the preview is
\* field 0 of a data row of the file: its read failed.
C16_Witness ==
    /\ last = Shown("delete_selected", "Not found")
    /\ Readable
    /\ tree # <<>>
    /\ \A i \in 1..Len(tree) : tree[i] \in ids_of(edit_data_rows(current_rows))

\* C17: edit mode is on exactly when original_id is set; while it is on, a
\* file is selected and original_id is field 0 of one of its data rows; a
\* save that succeeds and a delete of the record being edited leave it off.
C17_EditTarget ==
    /\ [](/\ editing <=> original_id # None
          /\ editing =>
                 /\ csv_file_path # "None"
                 /\ original_id[1] \in ids_of(edit_data_rows(current_rows)))
    /\ [][/\ last' = Saved => ~editing' /\ original_id' = None
          /\ \A item \in 1..Len(tree) :
                 /\ delete_selected(current_rows, item, TRUE)
                 /\ last' = Deleted
                 /\ original_id = Some(tree[item])
                 => ~editing' /\ original_id' = None]_vars

====
